---- MODULE Spec2Model ----
(***************************************************************************)
(* A model of debug_regex.py: a straight-line script that searches one     *)
(* string with the for-each pattern, prints the captured groups, then      *)
(* matches a second string against the split pattern and prints the        *)
(* verdict.  A string is the sequence of its code points (ord of each      *)
(* character); offsets are 0-based and spans half-open, as in Python's     *)
(* match.span().                                                           *)
(***************************************************************************)
EXTENDS Integers, Sequences, FiniteSets

VARIABLES text, iterable_text, match, out, pcA, pcB

vars == <<text, iterable_text, match, out, pcA, pcB>>

----------------------------------------------------------------------------
(* Helpers                                                                 *)

Min(S) == CHOOSE x \in S : \A y \in S : x <= y

\* s[i:j] of Python (0-based, half-open).
Slice(s, i, j) == SubSeq(s, i + 1, j)

\* The literal lit occurs in s at offset i.
LitAt(s, i, lit) == i + Len(lit) <= Len(s) /\ Slice(s, i, i + Len(lit)) = lit

----------------------------------------------------------------------------
(* Character classes of the re module (str patterns, no flags)             *)

\* \s of a str pattern: the Unicode whitespace characters (str.isspace):
\* \t \n \v \f \r, U+001C..U+001F, space, U+0085, U+00A0, U+1680,
\* U+2000..U+200A, U+2028, U+2029, U+202F, U+205F, U+3000.
IsSpace(c) ==
  c \in (9..13) \cup (28..32) \cup {133, 160, 5760} \cup (8192..8202)
        \cup {8232, 8233, 8239, 8287, 12288}

\* The code points \w matches in a str pattern, as ranges <<first, last>>:
\* the Unicode alphanumerics (str.isalnum, Unicode 14.0.0 of CPython 3.11)
\* and the underscore.
WordRanges ==
  {
   <<48,57>>, <<65,90>>, <<95,95>>, <<97,122>>, <<170,170>>, <<178,179>>,
   <<181,181>>, <<185,186>>, <<188,190>>, <<192,214>>, <<216,246>>, <<248,705>>,
   <<710,721>>, <<736,740>>, <<748,748>>, <<750,750>>, <<880,884>>, <<886,887>>,
   <<890,893>>, <<895,895>>, <<902,902>>, <<904,906>>, <<908,908>>, <<910,929>>,
   <<931,1013>>, <<1015,1153>>, <<1162,1327>>, <<1329,1366>>, <<1369,1369>>, <<1376,1416>>,
   <<1488,1514>>, <<1519,1522>>, <<1568,1610>>, <<1632,1641>>, <<1646,1647>>, <<1649,1747>>,
   <<1749,1749>>, <<1765,1766>>, <<1774,1788>>, <<1791,1791>>, <<1808,1808>>, <<1810,1839>>,
   <<1869,1957>>, <<1969,1969>>, <<1984,2026>>, <<2036,2037>>, <<2042,2042>>, <<2048,2069>>,
   <<2074,2074>>, <<2084,2084>>, <<2088,2088>>, <<2112,2136>>, <<2144,2154>>, <<2160,2183>>,
   <<2185,2190>>, <<2208,2249>>, <<2308,2361>>, <<2365,2365>>, <<2384,2384>>, <<2392,2401>>,
   <<2406,2415>>, <<2417,2432>>, <<2437,2444>>, <<2447,2448>>, <<2451,2472>>, <<2474,2480>>,
   <<2482,2482>>, <<2486,2489>>, <<2493,2493>>, <<2510,2510>>, <<2524,2525>>, <<2527,2529>>,
   <<2534,2545>>, <<2548,2553>>, <<2556,2556>>, <<2565,2570>>, <<2575,2576>>, <<2579,2600>>,
   <<2602,2608>>, <<2610,2611>>, <<2613,2614>>, <<2616,2617>>, <<2649,2652>>, <<2654,2654>>,
   <<2662,2671>>, <<2674,2676>>, <<2693,2701>>, <<2703,2705>>, <<2707,2728>>, <<2730,2736>>,
   <<2738,2739>>, <<2741,2745>>, <<2749,2749>>, <<2768,2768>>, <<2784,2785>>, <<2790,2799>>,
   <<2809,2809>>, <<2821,2828>>, <<2831,2832>>, <<2835,2856>>, <<2858,2864>>, <<2866,2867>>,
   <<2869,2873>>, <<2877,2877>>, <<2908,2909>>, <<2911,2913>>, <<2918,2927>>, <<2929,2935>>,
   <<2947,2947>>, <<2949,2954>>, <<2958,2960>>, <<2962,2965>>, <<2969,2970>>, <<2972,2972>>,
   <<2974,2975>>, <<2979,2980>>, <<2984,2986>>, <<2990,3001>>, <<3024,3024>>, <<3046,3058>>,
   <<3077,3084>>, <<3086,3088>>, <<3090,3112>>, <<3114,3129>>, <<3133,3133>>, <<3160,3162>>,
   <<3165,3165>>, <<3168,3169>>, <<3174,3183>>, <<3192,3198>>, <<3200,3200>>, <<3205,3212>>,
   <<3214,3216>>, <<3218,3240>>, <<3242,3251>>, <<3253,3257>>, <<3261,3261>>, <<3293,3294>>,
   <<3296,3297>>, <<3302,3311>>, <<3313,3314>>, <<3332,3340>>, <<3342,3344>>, <<3346,3386>>,
   <<3389,3389>>, <<3406,3406>>, <<3412,3414>>, <<3416,3425>>, <<3430,3448>>, <<3450,3455>>,
   <<3461,3478>>, <<3482,3505>>, <<3507,3515>>, <<3517,3517>>, <<3520,3526>>, <<3558,3567>>,
   <<3585,3632>>, <<3634,3635>>, <<3648,3654>>, <<3664,3673>>, <<3713,3714>>, <<3716,3716>>,
   <<3718,3722>>, <<3724,3747>>, <<3749,3749>>, <<3751,3760>>, <<3762,3763>>, <<3773,3773>>,
   <<3776,3780>>, <<3782,3782>>, <<3792,3801>>, <<3804,3807>>, <<3840,3840>>, <<3872,3891>>,
   <<3904,3911>>, <<3913,3948>>, <<3976,3980>>, <<4096,4138>>, <<4159,4169>>, <<4176,4181>>,
   <<4186,4189>>, <<4193,4193>>, <<4197,4198>>, <<4206,4208>>, <<4213,4225>>, <<4238,4238>>,
   <<4240,4249>>, <<4256,4293>>, <<4295,4295>>, <<4301,4301>>, <<4304,4346>>, <<4348,4680>>,
   <<4682,4685>>, <<4688,4694>>, <<4696,4696>>, <<4698,4701>>, <<4704,4744>>, <<4746,4749>>,
   <<4752,4784>>, <<4786,4789>>, <<4792,4798>>, <<4800,4800>>, <<4802,4805>>, <<4808,4822>>,
   <<4824,4880>>, <<4882,4885>>, <<4888,4954>>, <<4969,4988>>, <<4992,5007>>, <<5024,5109>>,
   <<5112,5117>>, <<5121,5740>>, <<5743,5759>>, <<5761,5786>>, <<5792,5866>>, <<5870,5880>>,
   <<5888,5905>>, <<5919,5937>>, <<5952,5969>>, <<5984,5996>>, <<5998,6000>>, <<6016,6067>>,
   <<6103,6103>>, <<6108,6108>>, <<6112,6121>>, <<6128,6137>>, <<6160,6169>>, <<6176,6264>>,
   <<6272,6276>>, <<6279,6312>>, <<6314,6314>>, <<6320,6389>>, <<6400,6430>>, <<6470,6509>>,
   <<6512,6516>>, <<6528,6571>>, <<6576,6601>>, <<6608,6618>>, <<6656,6678>>, <<6688,6740>>,
   <<6784,6793>>, <<6800,6809>>, <<6823,6823>>, <<6917,6963>>, <<6981,6988>>, <<6992,7001>>,
   <<7043,7072>>, <<7086,7141>>, <<7168,7203>>, <<7232,7241>>, <<7245,7293>>, <<7296,7304>>,
   <<7312,7354>>, <<7357,7359>>, <<7401,7404>>, <<7406,7411>>, <<7413,7414>>, <<7418,7418>>,
   <<7424,7615>>, <<7680,7957>>, <<7960,7965>>, <<7968,8005>>, <<8008,8013>>, <<8016,8023>>,
   <<8025,8025>>, <<8027,8027>>, <<8029,8029>>, <<8031,8061>>, <<8064,8116>>, <<8118,8124>>,
   <<8126,8126>>, <<8130,8132>>, <<8134,8140>>, <<8144,8147>>, <<8150,8155>>, <<8160,8172>>,
   <<8178,8180>>, <<8182,8188>>, <<8304,8305>>, <<8308,8313>>, <<8319,8329>>, <<8336,8348>>,
   <<8450,8450>>, <<8455,8455>>, <<8458,8467>>, <<8469,8469>>, <<8473,8477>>, <<8484,8484>>,
   <<8486,8486>>, <<8488,8488>>, <<8490,8493>>, <<8495,8505>>, <<8508,8511>>, <<8517,8521>>,
   <<8526,8526>>, <<8528,8585>>, <<9312,9371>>, <<9450,9471>>, <<10102,10131>>, <<11264,11492>>,
   <<11499,11502>>, <<11506,11507>>, <<11517,11517>>, <<11520,11557>>, <<11559,11559>>, <<11565,11565>>,
   <<11568,11623>>, <<11631,11631>>, <<11648,11670>>, <<11680,11686>>, <<11688,11694>>, <<11696,11702>>,
   <<11704,11710>>, <<11712,11718>>, <<11720,11726>>, <<11728,11734>>, <<11736,11742>>, <<11823,11823>>,
   <<12293,12295>>, <<12321,12329>>, <<12337,12341>>, <<12344,12348>>, <<12353,12438>>, <<12445,12447>>,
   <<12449,12538>>, <<12540,12543>>, <<12549,12591>>, <<12593,12686>>, <<12690,12693>>, <<12704,12735>>,
   <<12784,12799>>, <<12832,12841>>, <<12872,12879>>, <<12881,12895>>, <<12928,12937>>, <<12977,12991>>,
   <<13312,19903>>, <<19968,42124>>, <<42192,42237>>, <<42240,42508>>, <<42512,42539>>, <<42560,42606>>,
   <<42623,42653>>, <<42656,42735>>, <<42775,42783>>, <<42786,42888>>, <<42891,42954>>, <<42960,42961>>,
   <<42963,42963>>, <<42965,42969>>, <<42994,43009>>, <<43011,43013>>, <<43015,43018>>, <<43020,43042>>,
   <<43056,43061>>, <<43072,43123>>, <<43138,43187>>, <<43216,43225>>, <<43250,43255>>, <<43259,43259>>,
   <<43261,43262>>, <<43264,43301>>, <<43312,43334>>, <<43360,43388>>, <<43396,43442>>, <<43471,43481>>,
   <<43488,43492>>, <<43494,43518>>, <<43520,43560>>, <<43584,43586>>, <<43588,43595>>, <<43600,43609>>,
   <<43616,43638>>, <<43642,43642>>, <<43646,43695>>, <<43697,43697>>, <<43701,43702>>, <<43705,43709>>,
   <<43712,43712>>, <<43714,43714>>, <<43739,43741>>, <<43744,43754>>, <<43762,43764>>, <<43777,43782>>,
   <<43785,43790>>, <<43793,43798>>, <<43808,43814>>, <<43816,43822>>, <<43824,43866>>, <<43868,43881>>,
   <<43888,44002>>, <<44016,44025>>, <<44032,55203>>, <<55216,55238>>, <<55243,55291>>, <<63744,64109>>,
   <<64112,64217>>, <<64256,64262>>, <<64275,64279>>, <<64285,64285>>, <<64287,64296>>, <<64298,64310>>,
   <<64312,64316>>, <<64318,64318>>, <<64320,64321>>, <<64323,64324>>, <<64326,64433>>, <<64467,64829>>,
   <<64848,64911>>, <<64914,64967>>, <<65008,65019>>, <<65136,65140>>, <<65142,65276>>, <<65296,65305>>,
   <<65313,65338>>, <<65345,65370>>, <<65382,65470>>, <<65474,65479>>, <<65482,65487>>, <<65490,65495>>,
   <<65498,65500>>, <<65536,65547>>, <<65549,65574>>, <<65576,65594>>, <<65596,65597>>, <<65599,65613>>,
   <<65616,65629>>, <<65664,65786>>, <<65799,65843>>, <<65856,65912>>, <<65930,65931>>, <<66176,66204>>,
   <<66208,66256>>, <<66273,66299>>, <<66304,66339>>, <<66349,66378>>, <<66384,66421>>, <<66432,66461>>,
   <<66464,66499>>, <<66504,66511>>, <<66513,66517>>, <<66560,66717>>, <<66720,66729>>, <<66736,66771>>,
   <<66776,66811>>, <<66816,66855>>, <<66864,66915>>, <<66928,66938>>, <<66940,66954>>, <<66956,66962>>,
   <<66964,66965>>, <<66967,66977>>, <<66979,66993>>, <<66995,67001>>, <<67003,67004>>, <<67072,67382>>,
   <<67392,67413>>, <<67424,67431>>, <<67456,67461>>, <<67463,67504>>, <<67506,67514>>, <<67584,67589>>,
   <<67592,67592>>, <<67594,67637>>, <<67639,67640>>, <<67644,67644>>, <<67647,67669>>, <<67672,67702>>,
   <<67705,67742>>, <<67751,67759>>, <<67808,67826>>, <<67828,67829>>, <<67835,67867>>, <<67872,67897>>,
   <<67968,68023>>, <<68028,68047>>, <<68050,68096>>, <<68112,68115>>, <<68117,68119>>, <<68121,68149>>,
   <<68160,68168>>, <<68192,68222>>, <<68224,68255>>, <<68288,68295>>, <<68297,68324>>, <<68331,68335>>,
   <<68352,68405>>, <<68416,68437>>, <<68440,68466>>, <<68472,68497>>, <<68521,68527>>, <<68608,68680>>,
   <<68736,68786>>, <<68800,68850>>, <<68858,68899>>, <<68912,68921>>, <<69216,69246>>, <<69248,69289>>,
   <<69296,69297>>, <<69376,69415>>, <<69424,69445>>, <<69457,69460>>, <<69488,69505>>, <<69552,69579>>,
   <<69600,69622>>, <<69635,69687>>, <<69714,69743>>, <<69745,69746>>, <<69749,69749>>, <<69763,69807>>,
   <<69840,69864>>, <<69872,69881>>, <<69891,69926>>, <<69942,69951>>, <<69956,69956>>, <<69959,69959>>,
   <<69968,70002>>, <<70006,70006>>, <<70019,70066>>, <<70081,70084>>, <<70096,70106>>, <<70108,70108>>,
   <<70113,70132>>, <<70144,70161>>, <<70163,70187>>, <<70272,70278>>, <<70280,70280>>, <<70282,70285>>,
   <<70287,70301>>, <<70303,70312>>, <<70320,70366>>, <<70384,70393>>, <<70405,70412>>, <<70415,70416>>,
   <<70419,70440>>, <<70442,70448>>, <<70450,70451>>, <<70453,70457>>, <<70461,70461>>, <<70480,70480>>,
   <<70493,70497>>, <<70656,70708>>, <<70727,70730>>, <<70736,70745>>, <<70751,70753>>, <<70784,70831>>,
   <<70852,70853>>, <<70855,70855>>, <<70864,70873>>, <<71040,71086>>, <<71128,71131>>, <<71168,71215>>,
   <<71236,71236>>, <<71248,71257>>, <<71296,71338>>, <<71352,71352>>, <<71360,71369>>, <<71424,71450>>,
   <<71472,71483>>, <<71488,71494>>, <<71680,71723>>, <<71840,71922>>, <<71935,71942>>, <<71945,71945>>,
   <<71948,71955>>, <<71957,71958>>, <<71960,71983>>, <<71999,71999>>, <<72001,72001>>, <<72016,72025>>,
   <<72096,72103>>, <<72106,72144>>, <<72161,72161>>, <<72163,72163>>, <<72192,72192>>, <<72203,72242>>,
   <<72250,72250>>, <<72272,72272>>, <<72284,72329>>, <<72349,72349>>, <<72368,72440>>, <<72704,72712>>,
   <<72714,72750>>, <<72768,72768>>, <<72784,72812>>, <<72818,72847>>, <<72960,72966>>, <<72968,72969>>,
   <<72971,73008>>, <<73030,73030>>, <<73040,73049>>, <<73056,73061>>, <<73063,73064>>, <<73066,73097>>,
   <<73112,73112>>, <<73120,73129>>, <<73440,73458>>, <<73648,73648>>, <<73664,73684>>, <<73728,74649>>,
   <<74752,74862>>, <<74880,75075>>, <<77712,77808>>, <<77824,78894>>, <<82944,83526>>, <<92160,92728>>,
   <<92736,92766>>, <<92768,92777>>, <<92784,92862>>, <<92864,92873>>, <<92880,92909>>, <<92928,92975>>,
   <<92992,92995>>, <<93008,93017>>, <<93019,93025>>, <<93027,93047>>, <<93053,93071>>, <<93760,93846>>,
   <<93952,94026>>, <<94032,94032>>, <<94099,94111>>, <<94176,94177>>, <<94179,94179>>, <<94208,100343>>,
   <<100352,101589>>, <<101632,101640>>, <<110576,110579>>, <<110581,110587>>, <<110589,110590>>, <<110592,110882>>,
   <<110928,110930>>, <<110948,110951>>, <<110960,111355>>, <<113664,113770>>, <<113776,113788>>, <<113792,113800>>,
   <<113808,113817>>, <<119520,119539>>, <<119648,119672>>, <<119808,119892>>, <<119894,119964>>, <<119966,119967>>,
   <<119970,119970>>, <<119973,119974>>, <<119977,119980>>, <<119982,119993>>, <<119995,119995>>, <<119997,120003>>,
   <<120005,120069>>, <<120071,120074>>, <<120077,120084>>, <<120086,120092>>, <<120094,120121>>, <<120123,120126>>,
   <<120128,120132>>, <<120134,120134>>, <<120138,120144>>, <<120146,120485>>, <<120488,120512>>, <<120514,120538>>,
   <<120540,120570>>, <<120572,120596>>, <<120598,120628>>, <<120630,120654>>, <<120656,120686>>, <<120688,120712>>,
   <<120714,120744>>, <<120746,120770>>, <<120772,120779>>, <<120782,120831>>, <<122624,122654>>, <<123136,123180>>,
   <<123191,123197>>, <<123200,123209>>, <<123214,123214>>, <<123536,123565>>, <<123584,123627>>, <<123632,123641>>,
   <<124896,124902>>, <<124904,124907>>, <<124909,124910>>, <<124912,124926>>, <<124928,125124>>, <<125127,125135>>,
   <<125184,125251>>, <<125259,125259>>, <<125264,125273>>, <<126065,126123>>, <<126125,126127>>, <<126129,126132>>,
   <<126209,126253>>, <<126255,126269>>, <<126464,126467>>, <<126469,126495>>, <<126497,126498>>, <<126500,126500>>,
   <<126503,126503>>, <<126505,126514>>, <<126516,126519>>, <<126521,126521>>, <<126523,126523>>, <<126530,126530>>,
   <<126535,126535>>, <<126537,126537>>, <<126539,126539>>, <<126541,126543>>, <<126545,126546>>, <<126548,126548>>,
   <<126551,126551>>, <<126553,126553>>, <<126555,126555>>, <<126557,126557>>, <<126559,126559>>, <<126561,126562>>,
   <<126564,126564>>, <<126567,126570>>, <<126572,126578>>, <<126580,126583>>, <<126585,126588>>, <<126590,126590>>,
   <<126592,126601>>, <<126603,126619>>, <<126625,126627>>, <<126629,126633>>, <<126635,126651>>, <<127232,127244>>,
   <<130032,130041>>, <<131072,173791>>, <<173824,177976>>, <<177984,178205>>, <<178208,183969>>, <<183984,191456>>,
   <<194560,195101>>, <<196608,201546>>
  }

\* \w
\* The set of the code points \w matches.
WordChars == UNION {r[1]..r[2] : r \in WordRanges}

IsWord(c) == c \in WordChars

\* Mutant of NotCloseParen: the class also admits ")", as "." would.
NotCloseParenAnyChar(c) == TRUE

\* [^)]
NotCloseParen(c) == c # 41

\* Mutant of AnyChar: \w in place of the dot.
AnyCharWordOnly(c) == IsWord(c)

\* . (without DOTALL): any character except a newline
AnyChar(c) == c # 10

\* The character classes the two patterns repeat, by name.
InClass(cls, c) ==
  CASE cls = "space" -> IsSpace(c)
    [] cls = "word" -> IsWord(c)
    [] cls = "not_close_paren" -> NotCloseParen(c)
    [] cls = "dot" -> AnyChar(c)

\* Length of the longest run of characters of class cls starting at offset i.
RunLen(s, i, cls) ==
  LET stop == {k \in (i + 1)..Len(s) : ~InClass(cls, s[k])}
  IN  IF stop = {} THEN Len(s) - i ELSE Min(stop) - (i + 1)

\* The outcomes of the alternatives a backtracking matcher may try are
\* kept as a table: a set of pairs <<key, result>>.

\* The successful result with the largest key in table T; <<>> is a failed
\* match (None).
Longest(T) ==
  LET ok == {t \in T : t[2] # <<>>}
  IN  IF ok = {} THEN <<>> ELSE (CHOOSE t \in ok : \A u \in ok : u[1] <= t[1])[2]

\* The successful result with the smallest key in table T.
Earliest(T) ==
  LET ok == {t \in T : t[2] # <<>>}
  IN  IF ok = {} THEN <<>> ELSE (CHOOSE t \in ok : \A u \in ok : t[1] <= u[1])[2]

\* A greedy quantifier: T pairs each admissible repetition count with the
\* result of the rest of the pattern after that many repetitions.  The
\* backtracking matcher tries the longest repetition first and gives
\* characters back one at a time, so the result is that of the largest
\* count whose continuation succeeds.  (The table is bound once, so each
\* continuation is evaluated once.)
Greedy(T) == CHOOSE m \in {Longest(U) : U \in {T}} : TRUE

\* Alternatives tried in order (the branches of |, the start offsets of a
\* search): the result is that of the first one that succeeds.
Ordered(T) == CHOOSE m \in {Earliest(U) : U \in {T}} : TRUE

----------------------------------------------------------------------------
(* pattern = r"for\s*\(\s*(var|final)\s+(\w+)\s+in\s+([^)]+)\)"            *)
(* Each operator matches the pattern from one element on, at offset i of   *)
(* s, for an attempt that started at offset p with the groups caps closed  *)
(* so far; it returns <<span0, span1, span2, span3>> or <<>>.              *)

\* \)
A_Close(s, i, p, caps) ==
  IF LitAt(s, i, <<41>>) THEN <<<<p, i + 1>>>> \o caps ELSE <<>>  \* ')'

\* ([^)]+)
A_Iterable(s, i, p, caps) ==
  Greedy({<<n, A_Close(s, i + n, p, Append(caps, <<i, i + n>>))>> :
             n \in 1..RunLen(s, i, "not_close_paren")})

\* \s+ after "in"
A_SpaceAfterIn(s, i, p, caps) ==
  Greedy({<<n, A_Iterable(s, i + n, p, caps)>> :
             n \in 1..RunLen(s, i, "space")})

\* Mutant of A_In: the keyword "of" is accepted as well as "in".
A_InOrOf(s, i, p, caps) ==
  IF LitAt(s, i, <<105,110>>) \/ LitAt(s, i, <<111,102>>)  \* 'in', 'of'
  THEN A_SpaceAfterIn(s, i + 2, p, caps)
  ELSE <<>>

\* in
A_In(s, i, p, caps) ==
  IF LitAt(s, i, <<105,110>>) THEN A_SpaceAfterIn(s, i + 2, p, caps) ELSE <<>>  \* 'in'

\* \s+ before "in"
A_SpaceBeforeIn(s, i, p, caps) ==
  Greedy({<<n, A_In(s, i + n, p, caps)>> :
             n \in 1..RunLen(s, i, "space")})

\* (\w+)
A_Variable(s, i, p, caps) ==
  Greedy({<<n, A_SpaceBeforeIn(s, i + n, p, Append(caps, <<i, i + n>>))>> :
             n \in 1..RunLen(s, i, "word")})

\* \s+ after the keyword
A_SpaceAfterKeyword(s, i, p, caps) ==
  Greedy({<<n, A_Variable(s, i + n, p, caps)>> :
             n \in 1..RunLen(s, i, "space")})

\* (var|final): the alternatives are tried in order.
A_Keyword(s, i, p) ==
  Ordered({<<1, IF LitAt(s, i, <<118,97,114>>)  \* 'var'
                THEN A_SpaceAfterKeyword(s, i + 3, p, <<<<i, i + 3>>>>)
                ELSE <<>> >>,
           <<2, IF LitAt(s, i, <<102,105,110,97,108>>)  \* 'final'
                THEN A_SpaceAfterKeyword(s, i + 5, p, <<<<i, i + 5>>>>)
                ELSE <<>> >>})

\* \s* after the opening parenthesis
A_SpaceAfterOpen(s, i, p) ==
  Greedy({<<n, A_Keyword(s, i + n, p)>> :
             n \in 0..RunLen(s, i, "space")})

\* \(
A_Open(s, i, p) ==
  IF LitAt(s, i, <<40>>) THEN A_SpaceAfterOpen(s, i + 1, p) ELSE <<>>  \* '('

\* \s* after "for"
A_SpaceAfterFor(s, i, p) ==
  Greedy({<<n, A_Open(s, i + n, p)>> :
             n \in 0..RunLen(s, i, "space")})

\* for ... : one attempt of the whole pattern at offset p
pattern(s, p) ==
  IF LitAt(s, p, <<102,111,114>>) THEN A_SpaceAfterFor(s, p + 3, p) ELSE <<>>  \* 'for'

\* re.search(pattern, s): the attempt at the leftmost offset that succeeds.
re_search(s) == Ordered({<<p, pattern(s, p)>> : p \in 0..Len(s)})

\* m.group(k) for a match m on s.
group(s, m, k) == Slice(s, m[k + 1][1], m[k + 1][2])

----------------------------------------------------------------------------
(* split_pattern = r".+\.split\(.*\)"                                      *)

\* \)
B_Close(s, i) == IF LitAt(s, i, <<41>>) THEN <<<<0, i + 1>>>> ELSE <<>>  \* ')'

\* .*
B_Args(s, i) ==
  Greedy({<<n, B_Close(s, i + n)>> :
             n \in 0..RunLen(s, i, "dot")})

\* Mutant of B_DotSplit: the dot is left unescaped (.split\( ), so any
\* character but a newline stands before "split(".
B_DotSplitUnescapedDot(s, i) ==
  IF i < Len(s) /\ AnyChar(s[i + 1]) /\ LitAt(s, i + 1, <<115,112,108,105,116,40>>)  \* 'split('
  THEN B_Args(s, i + 7)
  ELSE <<>>

\* \.split\(
B_DotSplit(s, i) ==
  IF LitAt(s, i, <<46,115,112,108,105,116,40>>) THEN B_Args(s, i + 7) ELSE <<>>  \* '.split('

\* .+ : the whole pattern, attempted at offset 0
split_pattern(s) ==
  Greedy({<<n, B_DotSplit(s, n)>> :
             n \in 1..RunLen(s, 0, "dot")})

\* Mutant of re_match: re.fullmatch, the match must end where s ends.
re_fullmatch(s) ==
  Longest({<<0, IF m # <<>> /\ m[1][2] = Len(s) THEN m ELSE <<>>>> :
                m \in {split_pattern(s)}})

\* re.match(split_pattern, s): one attempt, at offset 0 only.
re_match(s) == split_pattern(s)

----------------------------------------------------------------------------
(* The inputs.  The script fixes both strings as literals; to exercise the *)
(* patterns the model also runs it on the strings obtained from each       *)
(* literal by replacing at most MaxEdits of its pieces (in both strings    *)
(* together) by the alternatives listed.  The first choice of every slot   *)
(* is the literal's own piece.                                             *)

MaxEdits == 2

TextSlots ==
  <<
     \* '', 'x ', 'for (', 'for (final a in b) '
     <<<<>>, <<120,32>>, <<102,111,114,32,40>>, <<102,111,114,32,40,102,105,110,97,108,32,97,32,105,110,32,98,41,32>>>>,
     \* 'for', 'fo', 'For'
     <<<<102,111,114>>, <<102,111>>, <<70,111,114>>>>,
     \* ' ', '', '\t\n', '\x0b'
     <<<<32>>, <<>>, <<9,10>>, <<11>>>>,
     \* '(', '', '['
     <<<<40>>, <<>>, <<91>>>>,
     \* '', ' ', '\xa0'
     <<<<>>, <<32>>, <<160>>>>,
     \* 'var', 'final', 'let', 'vars'
     <<<<118,97,114>>, <<102,105,110,97,108>>, <<108,101,116>>, <<118,97,114,115>>>>,
     \* ' ', '', '  ', '\x1c'
     <<<<32>>, <<>>, <<32,32>>, <<28>>>>,
     \* 'char', 'in', 'c_1', 'a-b', '', '\xe9\xb2'
     <<<<99,104,97,114>>, <<105,110>>, <<99,95,49>>, <<97,45,98>>, <<>>, <<233,178>>>>,
     \* ' ', '', '\n', '\u2003'
     <<<<32>>, <<>>, <<10>>, <<8195>>>>,
     \* 'in', 'of', 'inx', ''
     <<<<105,110>>, <<111,102>>, <<105,110,120>>, <<>>>>,
     \* ' ', '', '  ', '\x85'
     <<<<32>>, <<>>, <<32,32>>, <<133>>>>,
     \* "'hello'.split('')", '', 'xs', ' ', 'f(g(1))', 'a\nb'
     <<<<39,104,101,108,108,111,39,46,115,112,108,105,116,40,39,39,41>>, <<>>, <<120,115>>, <<32>>, <<102,40,103,40,49,41,41>>, <<97,10,98>>>>,
     \* ')', '', '))'
     <<<<41>>, <<>>, <<41,41>>>>,
     \* ' {}', '', ' for (var y in ys) {}'
     <<<<32,123,125>>, <<>>, <<32,102,111,114,32,40,118,97,114,32,121,32,105,110,32,121,115,41,32,123,125>>>>
  >>

IterableSlots ==
  <<
     \* "'hello'", '', 'a', 'a\nb', '\n', '\u4e2d\r'
     <<<<39,104,101,108,108,111,39>>, <<>>, <<97>>, <<97,10,98>>, <<10>>, <<20013,13>>>>,
     \* '.split(', 'split(', '.split', '.Split(', 'xsplit('
     <<<<46,115,112,108,105,116,40>>, <<115,112,108,105,116,40>>, <<46,115,112,108,105,116>>, <<46,83,112,108,105,116,40>>, <<120,115,112,108,105,116,40>>>>,
     \* "''", '', "','", '\n', 'a)b', '\u2028'
     <<<<39,39>>, <<>>, <<39,44,39>>, <<10>>, <<97,41,98>>, <<8232>>>>,
     \* ')', ''
     <<<<41>>, <<>>>>,
     \* '', '.length', ')', '\n)', ' x'
     <<<<>>, <<46,108,101,110,103,116,104>>, <<41>>, <<10,41>>, <<32,120>>>>
  >>

\* The strings built from the slots with at most k pieces replaced.
RECURSIVE Variants(_, _)
Variants(slots, k) ==
  IF slots = <<>> THEN {<<>>}
  ELSE LET h == Head(slots)
       IN  {h[1] \o r : r \in Variants(Tail(slots), k)}
           \cup (IF k = 0 THEN {}
                 ELSE {h[j] \o r : j \in 2..Len(h),
                                   r \in Variants(Tail(slots), k - 1)})

\* text = "for (var char in 'hello'.split('')) {}"
InputStringA ==
  <<102,111,114,32,40,118,97,114,32,99,104,97,114,32,105,110,32,39,104,101,108,108,111,39,46,115,112,108,105,116,40,39,39,41,41,32,123,125>>  \* "for (var char in 'hello'.split('')) {}"

\* iterable_text = "'hello'.split('')"
InputStringB ==
  <<39,104,101,108,108,111,39,46,115,112,108,105,116,40,39,39,41>>  \* "'hello'.split('')"

----------------------------------------------------------------------------
(* The script.  pcA is the position inside the for-each test (lines 4-14), *)
(* pcB the position inside the split test (lines 17-22); out is standard   *)
(* output, one element per printed line.  match is None (<<>>) until the   *)
(* search has run.                                                         *)

Init ==
  /\ \E k \in 0..MaxEdits :
        /\ text \in Variants(TextSlots, k)
        /\ iterable_text \in Variants(IterableSlots, MaxEdits - k)
  /\ match = <<>>
  /\ out = <<>>
  /\ pcA = "search"
  /\ pcB = "if"

\* print(line)
print(line) == out' = Append(out, line)

\* match = re.search(pattern, text)
SearchA ==
  /\ pcA = "search"
  /\ match' = re_search(text)
  /\ pcA' = "if"
  /\ UNCHANGED <<text, iterable_text, out, pcB>>

\* Mutant of IfMatch: the groups are printed without testing the match.
IfMatchUnguarded ==
  /\ pcA = "if"
  /\ pcA' = "print_full"
  /\ UNCHANGED <<text, iterable_text, match, out, pcB>>

\* if match: ... else: ...
IfMatch ==
  /\ pcA = "if"
  /\ pcA' = IF match # <<>> THEN "print_full" ELSE "print_none"
  /\ UNCHANGED <<text, iterable_text, match, out, pcB>>

\* print(f"<label>'{match.group(k)}'"), then on to position next.  Calling
\* group on None raises AttributeError, which ends the script.
PrintGroup(label, k, next) ==
  IF match = <<>>
  THEN pcA' = "error" /\ out' = out
  ELSE pcA' = next /\ print(label \o group(text, match, k) \o <<39>>)  \* "'"

\* print(f"Full match: '{match.group(0)}'")
PrintFull ==
  /\ pcA = "print_full"
  /\ PrintGroup(<<70,117,108,108,32,109,97,116,99,104,58,32,39>>,  \* "Full match: '"
                0, "print_keyword")
  /\ UNCHANGED <<text, iterable_text, match, pcB>>

\* print(f"Keyword: '{match.group(1)}'")
PrintKeyword ==
  /\ pcA = "print_keyword"
  /\ PrintGroup(<<75,101,121,119,111,114,100,58,32,39>>,  \* "Keyword: '"
                1, "print_variable")
  /\ UNCHANGED <<text, iterable_text, match, pcB>>

\* Mutant of PrintVariable: the line shows group 1 in place of group 2.
PrintVariableWrongGroup ==
  /\ pcA = "print_variable"
  /\ PrintGroup(<<86,97,114,105,97,98,108,101,58,32,39>>,  \* "Variable: '"
                1, "print_iterable")
  /\ UNCHANGED <<text, iterable_text, match, pcB>>

\* print(f"Variable: '{match.group(2)}'")
PrintVariable ==
  /\ pcA = "print_variable"
  /\ PrintGroup(<<86,97,114,105,97,98,108,101,58,32,39>>,  \* "Variable: '"
                2, "print_iterable")
  /\ UNCHANGED <<text, iterable_text, match, pcB>>

\* print(f"Iterable: '{match.group(3)}'")
PrintIterable ==
  /\ pcA = "print_iterable"
  /\ PrintGroup(<<73,116,101,114,97,98,108,101,58,32,39>>,  \* "Iterable: '"
                3, "done")
  /\ UNCHANGED <<text, iterable_text, match, pcB>>

\* print("No match found")
PrintNoMatch ==
  /\ pcA = "print_none"
  /\ print(<<78,111,32,109,97,116,99,104,32,102,111,117,110,100>>)  \* 'No match found'
  /\ pcA' = "done"
  /\ UNCHANGED <<text, iterable_text, match, pcB>>

\* Mutant of IfSplitStep: the condition tests the match object of the
\* for-each test instead of matching iterable_text.
IfSplitStepUsesMatch ==
  /\ pcB = "if"
  /\ pcB' = IF match # <<>> THEN "print_matches" ELSE "print_no_match"
  /\ UNCHANGED <<text, iterable_text, match, out, pcA>>

\* if re.match(split_pattern, iterable_text): ... else: ...
IfSplitStep ==
  /\ pcB = "if"
  /\ pcB' = IF re_match(iterable_text) # <<>> THEN "print_matches" ELSE "print_no_match"
  /\ UNCHANGED <<text, iterable_text, match, out, pcA>>

\* print(f"Split pattern matches: '{iterable_text}' -> should return String")
PrintSplitMatchesStep ==
  /\ pcB = "print_matches"
  /\ print(<<83,112,108,105,116,32,112,97,116,116,101,114,110,32,109,97,116,99,104,101,115,58,32,39>>  \* "Split pattern matches: '"
           \o iterable_text
           \o <<39,32,45,62,32,115,104,111,117,108,100,32,114,101,116,117,114,110,32,83,116,114,105,110,103>>)  \* "' -> should return String"
  /\ pcB' = "done"
  /\ UNCHANGED <<text, iterable_text, match, pcA>>

\* print(f"Split pattern doesn't match: '{iterable_text}'")
PrintSplitNoMatchStep ==
  /\ pcB = "print_no_match"
  /\ print(<<83,112,108,105,116,32,112,97,116,116,101,114,110,32,100,111,101,115,110,39,116,32,109,97,116,99,104,58,32,39>>  \* "Split pattern doesn't match: '"
           \o iterable_text \o <<39>>)  \* "'"
  /\ pcB' = "done"
  /\ UNCHANGED <<text, iterable_text, match, pcA>>

\* The script runs top to bottom: each statement of the split test (lines
\* 17-22) runs only after the for-each test (lines 4-14) has printed its
\* last line.
IfSplit == pcA = "done" /\ IfSplitStep

PrintSplitMatches == pcA = "done" /\ PrintSplitMatchesStep

PrintSplitNoMatch == pcA = "done" /\ PrintSplitNoMatchStep

Next ==
  \/ SearchA
  \/ IfMatch
  \/ PrintFull
  \/ PrintKeyword
  \/ PrintVariable
  \/ PrintIterable
  \/ PrintNoMatch
  \/ IfSplit
  \/ PrintSplitMatches
  \/ PrintSplitNoMatch

Spec == Init /\ [][Next]_vars

\* The interpreter always executes the next statement.
FairSpec == Spec /\ WF_vars(Next)

\* The two tests run in any order or interleaved, statement by statement:
\* the order the script fixes between them is dropped.
AnyOrderNext ==
  \/ SearchA
  \/ IfMatch
  \/ PrintFull
  \/ PrintKeyword
  \/ PrintVariable
  \/ PrintIterable
  \/ PrintNoMatch
  \/ IfSplitStep
  \/ PrintSplitMatchesStep
  \/ PrintSplitNoMatchStep

AnyOrderSpec == Init /\ [][AnyOrderNext]_vars

----------------------------------------------------------------------------
(* Properties                                                              *)

\* lit occurs somewhere in s.
Contains(s, lit) == \E i \in 0..(Len(s) - Len(lit)) : Slice(s, i, i + Len(lit)) = lit

\* s without its k-th element.
RemoveAt(s, k) == SubSeq(s, 1, k - 1) \o SubSeq(s, k + 1, Len(s))

NoMatchLine == <<78,111,32,109,97,116,99,104,32,102,111,117,110,100>>  \* 'No match found'

DotSplitOpen == <<46,115,112,108,105,116,40>>  \* '.split('

\* The script has evaluated the condition of the split test.
SplitTested == pcB \in {"print_matches", "print_no_match"}

\* What the for-each test prints for the match object it holds: the four
\* labelled groups, or the one line that reports a failed search.
ExpectedBlockA ==
  IF match = <<>>
  THEN <<NoMatchLine>>
  ELSE << <<70,117,108,108,32,109,97,116,99,104,58,32,39>> \o Slice(text, match[1][1], match[1][2]) \o <<39>>,  \* "Full match: '", "'"
          <<75,101,121,119,111,114,100,58,32,39>> \o Slice(text, match[2][1], match[2][2]) \o <<39>>,  \* "Keyword: '", "'"
          <<86,97,114,105,97,98,108,101,58,32,39>> \o Slice(text, match[3][1], match[3][2]) \o <<39>>,  \* "Variable: '", "'"
          <<73,116,101,114,97,98,108,101,58,32,39>> \o Slice(text, match[4][1], match[4][2]) \o <<39>> >>  \* "Iterable: '", "'"

\* What the split test prints for iterable_text.
ExpectedLineB ==
  IF re_match(iterable_text) # <<>>
  THEN <<83,112,108,105,116,32,112,97,116,116,101,114,110,32,109,97,116,99,104,101,115,58,32,39>>  \* "Split pattern matches: '"
       \o iterable_text \o <<39,32,45,62,32,115,104,111,117,108,100,32,114,101,116,117,114,110,32,83,116,114,105,110,103>>  \* "' -> should return String"
  ELSE <<83,112,108,105,116,32,112,97,116,116,101,114,110,32,100,111,101,115,110,39,116,32,109,97,116,99,104,58,32,39>>  \* "Split pattern doesn't match: '"
       \o iterable_text \o <<39>>  \* "'"

Finished == pcA = "done" /\ pcB = "done"

\* C1: searching the literal text with the for-each pattern yields the full
\* match "for (var char in 'hello'.split(''))", keyword "var", variable
\* "char" and iterable "'hello'.split('')".
C1_LiteralCaptures ==
  (text = InputStringA /\ pcA # "search") =>
     /\ match # <<>>
     /\ group(text, match, 0) = 
          <<102,111,114,32,40,118,97,114,32,99,104,97,114,32,105,110,32,39,104,101,108,108,111,39,46,115,112,108,105,116,40,39,39,41,41>>  \* "for (var char in 'hello'.split(''))"
     /\ group(text, match, 1) = <<118,97,114>>  \* 'var'
     /\ group(text, match, 2) = <<99,104,97,114>>  \* 'char'
     /\ group(text, match, 3) = InputStringB

\* C2: when the script has finished, standard output is the block of the
\* for-each test (four labelled group lines on a match, the single line
\* "No match found" otherwise) followed by the one line of the split test,
\* never both alternatives of either; on the two literals it is five lines.
C2_OutputFormat ==
  Finished =>
     /\ out = ExpectedBlockA \o <<ExpectedLineB>>
     /\ Len(out) = (IF match = <<>> THEN 1 ELSE 4) + 1
     /\ (match # <<>>) <=> (out[1] # NoMatchLine)
     /\ (text = InputStringA /\ iterable_text = InputStringB) => Len(out) = 5

\* Neither pattern matched: the two-line output.
C2_Witness ==
  /\ Finished
  /\ match = <<>>
  /\ re_match(iterable_text) = <<>>
  /\ Len(out) = 2
  /\ out[1] = NoMatchLine

\* C3: the split pattern, anchored at offset 0, matches the literal
\* iterable_text, so the script prints the "Split pattern matches" line.
C3_LiteralSplitMatches ==
  iterable_text = InputStringB =>
     /\ pcB # "print_no_match"
     /\ pcB = "done" =>
          out[Len(out)] = 
            <<83,112,108,105,116,32,112,97,116,116,101,114,110,32,109,97,116,99,104,101,115,58,32,39,39,104,101,108,108,111,39,46,115,112,108,105,116,40,39,39,41,39,32,45,62,32,115,104,111,117,108,100,32,114,101,116,117,114,110,32,83,116,114,105,110,103>>  \* "Split pattern matches: ''hello'.split('')' -> should return String"

\* The end of the script's run on its two literals.
C3_Witness ==
  /\ text = InputStringA
  /\ iterable_text = InputStringB
  /\ Finished
  /\ Len(out) = 5

\* C4: a string that does not contain ".split(" is not matched by the split
\* pattern.
C4_NoSplitNoMatch ==
  (SplitTested /\ ~Contains(iterable_text, DotSplitOpen)) => pcB = "print_no_match"

\* A string that has "split(" after a receiver, but no dot before it.
C4_Witness ==
  /\ pcB = "print_no_match"
  /\ ~Contains(iterable_text, DotSplitOpen)
  /\ Contains(iterable_text, <<115,112,108,105,116,40>>)  \* 'split('
  /\ Len(iterable_text) > 6

\* The token "in" preceded by an identifier (at least one word character)
\* and whitespace occurs in s.
HasInToken(s) ==
  \E j \in 3..(Len(s) - 1) :
     /\ s[j] = 105 /\ s[j + 1] = 110  \* 'i', 'n'
     /\ (j + 1 = Len(s) \/ ~IsWord(s[j + 2]))
     /\ IsSpace(s[j - 1])
     /\ \E i \in 1..(j - 2) :
           /\ IsWord(s[i])
           /\ \A k \in (i + 1)..(j - 1) : IsSpace(s[k])

\* C5: a string without the token "in" preceded by an identifier and
\* whitespace is matched nowhere by the for-each pattern.
C5_NoInTokenNoMatch ==
  (pcA # "search" /\ ~HasInToken(text)) => match = <<>>

\* A for-each header that has everything but the token "in".
C5_Witness ==
  /\ pcA = "print_none"
  /\ ~HasInToken(text)
  /\ Contains(text, <<102,111,114,32,40,118,97,114,32,99,104,97,114,32>>)  \* 'for (var char '

\* C6: the script always runs to its end, whether or not either pattern
\* matched, and never ends in a raised exception.
C6_TerminatesNormally == <>Finished /\ [](pcA # "error")

\* The end of a run in which the search failed and the split test matched.
C6_Witness ==
  /\ Finished
  /\ match = <<>>
  /\ re_match(iterable_text) # <<>>
  /\ out[1] = NoMatchLine

\* C8: on every match of the for-each pattern the iterable (group 3) is
\* non-empty and has no ")", the match ends with the first ")" after its
\* start, right after the iterable; so for the literal text, whose iterable
\* is a method call, the capture stops before the call's own ")".
C8_IterableStopsAtFirstClose ==
  match # <<>> =>
     LET en == match[1][2]
         g3 == match[4]
     IN  /\ g3[1] < g3[2]
         /\ \A k \in (g3[1] + 1)..g3[2] : text[k] # 41
         /\ g3[2] = en - 1
         /\ text[en] = 41
         /\ \A k \in (match[1][1] + 1)..(en - 1) : text[k] # 41
         /\ IsSpace(text[g3[1]])
         /\ text = InputStringA =>
               Slice(text, g3[1], g3[2]) = 
                 <<39,104,101,108,108,111,39,46,115,112,108,105,116,40,39,39>>  \* "'hello'.split(''"

\* The literal text: the iterable expression has a ")" of its own.
C8_Witness ==
  /\ text = InputStringA
  /\ match # <<>>
  /\ Slice(text, match[4][1], match[1][2]) = 
       <<39,104,101,108,108,111,39,46,115,112,108,105,116,40,39,39,41>>  \* "'hello'.split('')"
  /\ text[match[1][2] + 1] = 41

\* s has a non-empty receiver, then ".split(", then a later ")".
HasSplitCall(s) ==
  \E i \in 1..Len(s) : \E j \in (i + 7)..(Len(s) - 1) :
     LitAt(s, i, DotSplitOpen) /\ s[j + 1] = 41

\* The same, with no newline before that ")".
HasSplitCallOnFirstLine(s) ==
  \E i \in 1..Len(s) : \E j \in (i + 7)..(Len(s) - 1) :
     /\ LitAt(s, i, DotSplitOpen)
     /\ s[j + 1] = 41
     /\ \A k \in 1..j : s[k] # 10

\* No ")" occurs after an occurrence of ".split(", or nothing precedes the
\* only occurrence of ".split(".
SplitCallIncomplete(s) ==
  LET at == {i \in 0..Len(s) : LitAt(s, i, DotSplitOpen)}
  IN  /\ at # {}
      /\ \/ \A i \in at : \A j \in (i + 7)..(Len(s) - 1) : s[j + 1] # 41
         \/ at = {0}

\* C9 as stated: the split pattern matches every string that has a
\* non-empty receiver, ".split(" and a later ")", whatever follows the last
\* ")", and matches none without a ")" after ".split(" or with nothing
\* before its only ".split(".
C9_PrefixMatchAnyString ==
  /\ (SplitTested /\ HasSplitCall(iterable_text)) => pcB = "print_matches"
  /\ (SplitTested /\ SplitCallIncomplete(iterable_text)) => pcB = "print_no_match"

\* C9 amended: the split pattern matches exactly the strings that have a
\* non-empty receiver, ".split(" and a later ")" with no newline anywhere
\* before that ")"; what follows the ")" is free.
C9_PrefixMatchOnFirstLine ==
  SplitTested =>
     /\ (pcB = "print_matches") <=> HasSplitCallOnFirstLine(iterable_text)
     /\ SplitCallIncomplete(iterable_text) => pcB = "print_no_match"

\* A match on a string that goes on after its last ")".
C9_Witness ==
  /\ pcB = "print_matches"
  /\ iterable_text[Len(iterable_text)] # 41
  /\ HasSplitCallOnFirstLine(iterable_text)

\* C10 as stated: run in any order or interleaved, the two tests produce
\* the output of the sequential run.
C10_SameOutputInAnyOrder ==
  Finished => out = ExpectedBlockA \o <<ExpectedLineB>>

\* C10 amended: run in any order or interleaved, each test prints what it
\* prints in the sequential run (the tests share nothing but standard
\* output), and the output is the block of the for-each test with the line
\* of the split test inserted at some position.
C10_SameLinesInAnyOrder ==
  Finished =>
     \E k \in 1..Len(out) :
        out[k] = ExpectedLineB /\ RemoveAt(out, k) = ExpectedBlockA

\* The split test has printed first.
C10_Witness ==
  /\ Finished
  /\ out[1] = ExpectedLineB
  /\ Len(out) = 5

====
